---- MODULE Spec2Model ----
(***************************************************************************)
(* Model of the mySpot analysis scripts: the SPEC log parser (Spec.py) and *)
(* the integration driver (IntegrateData.py).                              *)
(*                                                                         *)
(* Text is modelled character by character: a Python str is a sequence of  *)
(* one-character strings, so startswith, split, slicing, int and float are *)
(* computed the way the interpreter computes them.                         *)
(***************************************************************************)
EXTENDS Integers, Sequences, FiniteSets, TLC

VARIABLES
    \* ---- Spec.py: read_scan run on its own (specification SpecScan)
    scan_pc,        \* "idle" | "loop" | "returned" | "raised"
    scan_st,        \* locals of read_scan: scan_info, columns, scan_list, exc
    scan_in,        \* the lines the for loop has consumed so far
    scan_ret,       \* the value read_scan returned, NoValue before
    \* ---- Spec.py: read_spec (specification SpecFile)
    pc,             \* "idle" | "header" | "readlines" | "scans" | "last" | "returned" | "raised"
    file_info,      \* the dict built by the header phase
    hdr_in,         \* the lines readline() has handed out so far ("" is end of file)
    lines,          \* the list readlines() returned, as the scan loop shortens it
    body_in,        \* the list readlines() returned, as read
    scans,          \* the list of scan records
    exc,            \* the exception read_spec ended with, None otherwise
    ret,            \* the value read_spec returned, NoValue before
    \* ---- IntegrateData.py: __main__ and integrate_run (specification Spec)
    mpc,            \* "idle" | "main" | "setup" | "readspec" | "runs" | "images" | "runend"
                    \* | "mkdir" | "save" | "done" | "exit" | "crashed"
    argv_len,       \* len(sys.argv): the program name and its arguments
    mask,           \* None or the mask image
    flatfield,      \* None or the flatfield image
    spec_data,      \* _spec_data: the run tables
    idx,            \* index of the run being processed, from 0
    image,          \* index of the row being processed, from 0
    patterns,       \* the rows of the current run's matrix
    q,              \* the q-axis variable of integrate_run
    all_patterns,   \* _all_patterns
    calls,          \* the calls made to the collaborators, in order
    built,          \* the runs a pattern matrix was constructed for, in order
    status,         \* the sys.exit message or the uncaught exception, None otherwise
    created,        \* whether os.mkdir created the output directory
    main_idx,       \* index of the run being saved, from 0
    saved,          \* the artifacts written, in order
    \* ---- IntegrateData.py: baseline_als (specification SpecBaseline)
    als_pc,         \* "idle" | "loop" | "returned" | "raised"
    als_y,          \* y: the samples
    als_lam,        \* lam
    als_p,          \* p, a fraction [num, den]
    als_niter,      \* niter
    als_i,          \* the rounds of the for loop completed so far
    als_w,          \* w: the weights, as numerators over als_p.den
    als_z           \* z: the last solution, NoSolution before the first round

scanVars == <<scan_pc, scan_st, scan_in, scan_ret>>
fileVars == <<pc, file_info, hdr_in, lines, body_in, scans, exc, ret>>
runVars == <<mpc, argv_len, mask, flatfield, spec_data, idx, image, patterns, q,
             all_patterns, calls, built, status, created, main_idx, saved>>
alsVars == <<als_pc, als_y, als_lam, als_p, als_niter, als_i, als_w, als_z>>
vars == <<scanVars, fileVars, runVars, alsVars>>

None == "None"

\* None where the other values of the variable are records or tuples (TLC
\* compares values of one kind only)
NoneRecord == [none |-> TRUE]
NoValue == <<>>

\* z of baseline_als before the first round assigns it
NoSolution == [num |-> <<>>, den |-> 0]

Min(a, b) == IF a < b THEN a ELSE b
Max(a, b) == IF a > b THEN a ELSE b

(***************************************************************************)
(* Python str and list primitives                                          *)
(***************************************************************************)
\* str.startswith(p)
StartsWith(s, p) == Len(s) >= Len(p) /\ SubSeq(s, 1, Len(p)) = p

\* the characters str.split() treats as separators
Whitespace == {" ", "\t", "\n", "\r"}

RECURSIVE SplitFrom(_, _, _)
SplitFrom(s, i, cur) ==
    IF i > Len(s)
    THEN (IF cur = <<>> THEN <<>> ELSE <<cur>>)
    ELSE IF s[i] \in Whitespace
         THEN (IF cur = <<>> THEN <<>> ELSE <<cur>>) \o SplitFrom(s, i + 1, <<>>)
         ELSE SplitFrom(s, i + 1, Append(cur, s[i]))

\* str.split(): the maximal runs of non-whitespace characters, in order
Split(s) == SplitFrom(s, 1, <<>>)

\* s[lo:hi] for lo >= 0; a negative hi counts from the end
PySlice(s, lo, hi) ==
    LET n == Len(s)
        stop == IF hi < 0 THEN Max(n + hi, 0) ELSE Min(hi, n)
    IN  SubSeq(s, lo + 1, stop)

\* s[lo:] for lo >= 0
PyFrom(s, lo) == SubSeq(s, lo + 1, Len(s))

Digits == {"0", "1", "2", "3", "4", "5", "6", "7", "8", "9"}

DigitVal(c) ==
    CASE c = "0" -> 0 [] c = "1" -> 1 [] c = "2" -> 2 [] c = "3" -> 3
      [] c = "4" -> 4 [] c = "5" -> 5 [] c = "6" -> 6 [] c = "7" -> 7
      [] c = "8" -> 8 [] c = "9" -> 9

AllDigits(d) == d # <<>> /\ \A i \in 1..Len(d) : d[i] \in Digits

RECURSIVE DigitsVal(_)
DigitsVal(d) ==
    IF d = <<>> THEN 0
    ELSE 10 * DigitsVal(SubSeq(d, 1, Len(d) - 1)) + DigitVal(d[Len(d)])

Signed(tok) == tok # <<>> /\ tok[1] \in {"+", "-"}
Unsigned(tok) == IF Signed(tok) THEN Tail(tok) ELSE tok

\* int(tok) succeeds: an optional sign and at least one decimal digit
IsInt(tok) == AllDigits(Unsigned(tok))

\* int(tok)
IntOf(tok) ==
    IF Signed(tok) /\ tok[1] = "-"
    THEN 0 - DigitsVal(Unsigned(tok))
    ELSE DigitsVal(Unsigned(tok))

\* position of the decimal point in a token, 0 when there is none
DotAt(tok) ==
    IF \E i \in 1..Len(tok) : tok[i] = "."
    THEN CHOOSE i \in 1..Len(tok) : tok[i] = "." /\ \A j \in 1..(i - 1) : tok[j] # "."
    ELSE 0

\* float(tok) succeeds: [sign] digits [. digits], with a digit on one side
IsFloat(tok) ==
    LET u == Unsigned(tok)
        k == DotAt(u)
        ip == IF k = 0 THEN u ELSE SubSeq(u, 1, k - 1)
        fp == IF k = 0 THEN <<>> ELSE SubSeq(u, k + 1, Len(u))
    IN  /\ (ip # <<>> \/ fp # <<>>)
        /\ \A i \in 1..Len(ip) : ip[i] \in Digits
        /\ \A i \in 1..Len(fp) : fp[i] \in Digits

RECURSIVE Normalise(_, _)
\* m / 10^e with trailing zeros of the fraction removed
Normalise(m, e) ==
    IF e > 0 /\ m % 10 = 0 THEN Normalise(m \div 10, e - 1) ELSE <<m, e>>

\* float(tok) as the pair <<m, e>> standing for m / 10^e
FloatOf(tok) ==
    LET u == Unsigned(tok)
        k == DotAt(u)
        ip == IF k = 0 THEN u ELSE SubSeq(u, 1, k - 1)
        fp == IF k = 0 THEN <<>> ELSE SubSeq(u, k + 1, Len(u))
        v == Normalise(DigitsVal(ip \o fp), Len(fp))
    IN  IF Signed(tok) /\ tok[1] = "-" THEN <<0 - v[1], v[2]>> ELSE v

WeekdayNames == {<<"M", "o", "n">>, <<"T", "u", "e">>, <<"W", "e", "d">>, <<"T", "h", "u">>, <<"F", "r", "i">>, <<"S", "a", "t">>, <<"S", "u", "n">>}

MonthNames ==
    <<<<"J", "a", "n">>, <<"F", "e", "b">>, <<"M", "a", "r">>, <<"A", "p", "r">>, <<"M", "a", "y">>, <<"J", "u", "n">>,
      <<"J", "u", "l">>, <<"A", "u", "g">>, <<"S", "e", "p">>, <<"O", "c", "t">>, <<"N", "o", "v">>, <<"D", "e", "c">>>>

MonthOf(name) == CHOOSE m \in 1..12 : MonthNames[m] = name

\* datetime.strptime(s, "%a %b %d %H:%M:%S %Y") succeeds, for the fixed-width
\* rendering "Www Mmm dd HH:MM:SS YYYY" that SPEC writes
IsDate(s) ==
    /\ Len(s) = 24
    /\ SubSeq(s, 1, 3) \in WeekdayNames
    /\ s[4] = " "
    /\ \E m \in 1..12 : MonthNames[m] = SubSeq(s, 5, 7)
    /\ s[8] = " "
    /\ AllDigits(SubSeq(s, 9, 10)) /\ DigitsVal(SubSeq(s, 9, 10)) \in 1..31
    /\ s[11] = " "
    /\ AllDigits(SubSeq(s, 12, 13)) /\ DigitsVal(SubSeq(s, 12, 13)) \in 0..23
    /\ s[14] = ":"
    /\ AllDigits(SubSeq(s, 15, 16)) /\ DigitsVal(SubSeq(s, 15, 16)) \in 0..59
    /\ s[17] = ":"
    /\ AllDigits(SubSeq(s, 18, 19)) /\ DigitsVal(SubSeq(s, 18, 19)) \in 0..61
    /\ s[20] = " "
    /\ AllDigits(SubSeq(s, 21, 24))

\* the datetime strptime builds
DateOf(s) ==
    [year |-> DigitsVal(SubSeq(s, 21, 24)), month |-> MonthOf(SubSeq(s, 5, 7)),
     day |-> DigitsVal(SubSeq(s, 9, 10)), hour |-> DigitsVal(SubSeq(s, 12, 13)),
     minute |-> DigitsVal(SubSeq(s, 15, 16)), second |-> DigitsVal(SubSeq(s, 18, 19))]

\* pd.DataFrame(data=..., columns=...): the table is kept as the two arguments
\* the constructor receives
DataFrame(data, columns) == [columns |-> columns, rows |-> data]
(***************************************************************************)
(* Spec.py: read_scan                                                      *)
(***************************************************************************)
\* the locals of read_scan before its loop; exc is the exception the loop
\* ended with, None while it runs
ScanStart ==
    [scan_info |-> [scan_number |-> None, datetime |-> None,
                    motor_positions |-> <<>>, comments |-> <<>>],
     columns |-> <<>>, scan_list |-> <<>>, exc |-> None]

Raise(st, e) == [st EXCEPT !.exc = e]

\* strptime(line, '#D %a %b %d %H:%M:%S %Y\n') succeeds
IsScanDateLine(line) ==
    /\ Len(line) = 28
    /\ SubSeq(line, 1, 3) = <<"#", "D", " ">>
    /\ IsDate(SubSeq(line, 4, 27))
    /\ line[28] \in Whitespace

\* a non-directive line: the row is kept when its token count equals the
\* current number of columns
ScanDataLine(st, line) ==
    LET data == Split(line)
    IN  IF Len(data) = Len(st.columns)
        THEN [st EXCEPT !.scan_list = Append(@, data)]
        ELSE st

\* the '#L' branch: the column names are replaced, scan_list is left as it is
ScanColumnsLine(st, line) == [st EXCEPT !.columns = PyFrom(Split(line), 1)]

\* one pass of the body of the for loop of read_scan
ScanLine(st, line) ==
    IF StartsWith(line, <<"#">>)
    THEN CASE StartsWith(line, <<"#", "S">>) ->
                IF Len(Split(line)) < 2 THEN Raise(st, "IndexError")
                ELSE IF ~IsInt(Split(line)[2]) THEN Raise(st, "ValueError")
                ELSE [st EXCEPT !.scan_info.scan_number = IntOf(Split(line)[2])]
           [] StartsWith(line, <<"#", "D">>) ->
                IF IsScanDateLine(line)
                THEN [st EXCEPT !.scan_info.datetime = DateOf(SubSeq(line, 4, 27))]
                ELSE Raise(st, "ValueError")
           [] StartsWith(line, <<"#", "P">>) ->
                LET toks == PyFrom(Split(line), 1)
                IN  IF \A i \in 1..Len(toks) : IsFloat(toks[i])
                    THEN [st EXCEPT !.scan_info.motor_positions =
                              @ \o [i \in 1..Len(toks) |-> FloatOf(toks[i])]]
                    ELSE Raise(st, "ValueError")
           [] StartsWith(line, <<"#", "C">>) ->
                [st EXCEPT !.scan_info.comments = Append(@, PySlice(line, 3, -1))]
           [] StartsWith(line, <<"#", "L">>) -> ScanColumnsLine(st, line)
           [] OTHER -> st
    ELSE ScanDataLine(st, line)

\* the return statement of read_scan
ScanResult(st) == <<st.scan_info, DataFrame(st.scan_list, st.columns)>>

RECURSIVE ScanLoop(_, _, _)
ScanLoop(st, ls, i) ==
    IF i > Len(ls) \/ st.exc # None THEN st
    ELSE ScanLoop(ScanLine(st, ls[i]), ls, i + 1)

\* read_scan(ls): [exc, value], value being the returned pair when exc is None
read_scan(ls) ==
    LET st == ScanLoop(ScanStart, ls, 1)
    IN  IF st.exc # None THEN [exc |-> st.exc, value |-> NoValue]
        ELSE [exc |-> None, value |-> ScanResult(st)]

(***************************************************************************)
(* Specification SpecScan: read_scan applied to every sequence of at most  *)
(* MaxScanLines lines of ScanLines; the for loop draws its next line from  *)
(* the iterator, so the sequence is chosen line by line.                   *)
(***************************************************************************)
MaxScanLines == 4

DateText == <<"T", "h", "u", " ", "A", "p", "r", " ", "0", "8", " ", "1", "0", ":", "0", "0", ":", "0", "0", " ", "2", "0", "2", "1">>

ScanLines ==
    { <<"#", "S", " ", "1", "\n">>, <<"#", "S", "\n">>, <<"#", "D", " ">> \o DateText \o <<"\n">>, <<"#", "P", " ", "1", ".", "5", "0", " ", "2", "\n">>,
      <<"#", "C", " ", "o", "k", "\n">>, <<"#", "C", " ", "o", "k">>, <<"#", "L", " ", "a", " ", "b", "\n">>, <<"#", "L", " ", "a", "\n">>, <<"#", "U", "\n">>,
      <<"1", " ", "2", "\n">>, <<"3", "\n">>, <<"\n">> }

alsIdle ==
    /\ als_pc = "idle" /\ als_y = <<>> /\ als_lam = 0 /\ als_p = [num |-> 0, den |-> 0]
    /\ als_niter = 0 /\ als_i = 0 /\ als_w = <<>> /\ als_z = NoSolution

fileIdle ==
    /\ pc = "idle" /\ file_info = None /\ hdr_in = <<>> /\ lines = <<>>
    /\ body_in = <<>> /\ scans = <<>> /\ exc = None /\ ret = NoValue

runIdle ==
    /\ mpc = "idle" /\ argv_len = 0 /\ mask = None /\ flatfield = None
    /\ spec_data = <<>> /\ idx = 0 /\ image = 0 /\ patterns = <<>> /\ q = None
    /\ all_patterns = <<>> /\ calls = <<>> /\ built = <<>> /\ status = None
    /\ created = FALSE /\ main_idx = 0 /\ saved = <<>>

InitScan ==
    /\ scan_pc = "loop"
    /\ scan_st = ScanStart
    /\ scan_in = <<>>
    /\ scan_ret = NoValue
    /\ fileIdle
    /\ runIdle
    /\ alsIdle

\* the loop takes the next line of the block
ScanNextLine ==
    /\ scan_pc = "loop"
    /\ Len(scan_in) < MaxScanLines
    /\ \E line \in ScanLines :
         /\ scan_in' = Append(scan_in, line)
         /\ scan_st' = ScanLine(scan_st, line)
         /\ scan_pc' = IF scan_st'.exc # None THEN "raised" ELSE "loop"
    /\ UNCHANGED <<scan_ret, fileVars, runVars, alsVars>>

\* the block is exhausted: the table is built and the pair returned
ScanReturn ==
    /\ scan_pc = "loop"
    /\ scan_pc' = "returned"
    /\ scan_ret' = ScanResult(scan_st)
    /\ UNCHANGED <<scan_st, scan_in, fileVars, runVars, alsVars>>

NextScan == ScanNextLine \/ ScanReturn

SpecScan == InitScan /\ [][NextScan]_vars
(***************************************************************************)
(* Claims about read_scan                                                  *)
(***************************************************************************)
\* position of the last column-header directive consumed, 0 when there is none
LastColumnsLine(ls) ==
    IF \E i \in 1..Len(ls) : StartsWith(ls[i], <<"#", "L">>)
    THEN CHOOSE i \in 1..Len(ls) :
            /\ StartsWith(ls[i], <<"#", "L">>)
            /\ \A j \in (i + 1)..Len(ls) : ~StartsWith(ls[j], <<"#", "L">>)
    ELSE 0

IsDataLine(line) == ~StartsWith(line, <<"#">>)

RECURSIVE RowsOf(_, _)
\* the token lists of the data lines of ls that have n tokens, in order
RowsOf(ls, n) ==
    IF ls = <<>> THEN <<>>
    ELSE IF IsDataLine(Head(ls)) /\ Len(Split(Head(ls))) = n
         THEN <<Split(Head(ls))>> \o RowsOf(Tail(ls), n)
         ELSE RowsOf(Tail(ls), n)

\* the lines of one scan block as read_spec cuts them: no blank line, except
\* the one that may follow the last block
BlockShaped(ls) == \A i \in 1..(Len(ls) - 1) : ls[i] # <<"\n">>

\* C3: read_scan row invariant. Every row of the returned table has as many
\* tokens as the returned column_names; a data line with another token count
\* is dropped without aborting; a column-header directive resets the row
\* buffer, so the table holds exactly the matching data lines that follow the
\* last column-header directive.
C3_RowInvariant ==
    (scan_pc = "returned" /\ BlockShaped(scan_in)) =>
        LET df == scan_ret[2]
        IN  /\ \A i \in 1..Len(df.rows) : Len(df.rows[i]) = Len(df.columns)
            /\ df.rows = RowsOf(PyFrom(scan_in, LastColumnsLine(scan_in)),
                                Len(df.columns))

(***************************************************************************)
(* Spec.py: read_spec                                                      *)
(***************************************************************************)
FileInfoStart ==
    [file_name |-> None, epoch |-> None, datetime |-> None,
     motors |-> <<>>, comments |-> <<>>]

BlankLine == <<"\n">>

\* what readline() returns at the end of the file
EndOfFile == <<>>

\* the message of the ValueError the header loop raises itself
NotValid == "ValueError: Not a valid spec file"

HeaderPrefixes == {<<"#", "F">>, <<"#", "E">>, <<"#", "D">>, <<"#", "O">>, <<"#", "C">>}

KnownPrefix(line) == \E p \in HeaderPrefixes : StartsWith(line, p)

\* variant of HeaderUnknown: a line without a known prefix is skipped
HeaderUnknownSkipped(fi, line) == [exc |-> None, info |-> fi]

\* the else branch of the header dispatch
HeaderUnknown(fi, line) == [exc |-> NotValid, info |-> fi]

\* one pass of the body of the header loop: [exc, info]
HeaderLine(fi, line) ==
    CASE StartsWith(line, <<"#", "F">>) ->
            IF Len(Split(line)) < 2 THEN [exc |-> "IndexError", info |-> fi]
            ELSE [exc |-> None, info |-> [fi EXCEPT !.file_name = Split(line)[2]]]
      [] StartsWith(line, <<"#", "E">>) ->
            IF Len(Split(line)) < 2 THEN [exc |-> "IndexError", info |-> fi]
            ELSE IF ~IsInt(Split(line)[2]) THEN [exc |-> "ValueError", info |-> fi]
            ELSE [exc |-> None, info |-> [fi EXCEPT !.epoch = IntOf(Split(line)[2])]]
      [] StartsWith(line, <<"#", "D">>) ->
            IF IsDate(PySlice(line, 3, 27))
            THEN [exc |-> None,
                  info |-> [fi EXCEPT !.datetime = DateOf(PySlice(line, 3, 27))]]
            ELSE [exc |-> "ValueError", info |-> fi]
      [] StartsWith(line, <<"#", "O">>) ->
            [exc |-> None, info |-> [fi EXCEPT !.motors = @ \o PyFrom(Split(line), 1)]]
      [] StartsWith(line, <<"#", "C">>) ->
            [exc |-> None,
             info |-> [fi EXCEPT !.comments = Append(@, PySlice(line, 3, -1))]]
      [] OTHER -> HeaderUnknown(fi, line)

\* lines.index("\n"), counted from 1
IndexOfBlank(ls) ==
    CHOOSE k \in 1..Len(ls) : ls[k] = BlankLine /\ \A j \in 1..(k - 1) : ls[j] # BlankLine

HasBlank(ls) == \E k \in 1..Len(ls) : ls[k] = BlankLine

(***************************************************************************)
(* Specification SpecFile: read_spec on every file whose header has at     *)
(* most MaxHeaderLines lines of HeaderLines before its blank line or its   *)
(* end, and whose remaining text is at most MaxBodyLines lines of          *)
(* BodyLines.  readline() hands out the file line by line, so the header   *)
(* is chosen as it is read.                                                *)
(***************************************************************************)
MaxHeaderLines == 2
MaxBodyLines == 3

HeaderLines ==
    { <<"#", "F", " ", "f", "\n">>, <<"#", "F", "\n">>, <<"#", "E", " ", "7", "\n">>, <<"#", "D", " ">> \o DateText \o <<"\n">>,
      <<"#", "O", " ", "m", " ", "n", "\n">>, <<"#", "C", " ", "h", "i", "\n">>, <<"1", "\n">> }

BodyLines == { <<"#", "S", " ", "1", "\n">>, <<"#", "S", "\n">>, <<"#", "L", " ", "a", "\n">>, <<"1", "\n">>, BlankLine }

RECURSIVE SeqsUpTo(_, _)
\* the sequences over S of length at most n
SeqsUpTo(S, n) ==
    IF n = 0 THEN {<<>>}
    ELSE LET shorter == SeqsUpTo(S, n - 1)
         IN  shorter \cup {Append(sq, x) : sq \in {r \in shorter : Len(r) = n - 1}, x \in S}

scanIdle ==
    /\ scan_pc = "idle" /\ scan_st = ScanStart /\ scan_in = <<>> /\ scan_ret = NoValue

InitFile ==
    /\ pc = "header"
    /\ file_info = FileInfoStart
    /\ hdr_in = <<>>
    /\ lines = <<>>
    /\ body_in = <<>>
    /\ scans = <<>>
    /\ exc = None
    /\ ret = NoValue
    /\ scanIdle
    /\ runIdle
    /\ alsIdle

\* readline() and the loop test: a blank line ends the header
ReadHeaderBlank ==
    /\ pc = "header"
    /\ hdr_in' = Append(hdr_in, BlankLine)
    /\ pc' = "readlines"
    /\ UNCHANGED <<file_info, lines, body_in, scans, exc, ret, scanVars, runVars, alsVars>>

\* readline() and one pass of the header loop, on a line or on the end of
\* the file
ReadHeaderLine ==
    /\ pc = "header"
    /\ \E line \in {l \in HeaderLines : Len(hdr_in) < MaxHeaderLines} \cup {EndOfFile} :
         LET r == HeaderLine(file_info, line)
         IN  /\ hdr_in' = Append(hdr_in, line)
             /\ file_info' = r.info
             /\ exc' = r.exc
             /\ pc' = IF r.exc # None THEN "raised" ELSE "header"
    /\ UNCHANGED <<lines, body_in, scans, ret, scanVars, runVars, alsVars>>

\* lines = file_handle.readlines()
ReadLines ==
    /\ pc = "readlines"
    /\ \E body \in SeqsUpTo(BodyLines, MaxBodyLines) :
         /\ lines' = body
         /\ body_in' = body
    /\ pc' = "scans"
    /\ UNCHANGED <<file_info, hdr_in, scans, exc, ret, scanVars, runVars, alsVars>>

\* one pass of the while loop: cut the lines before the first blank line and
\* parse them, or break when nothing follows that blank line
SplitScan ==
    /\ pc = "scans"
    /\ HasBlank(lines)
    /\ LET k == IndexOfBlank(lines)
           scan == SubSeq(lines, 1, k - 1)
           r == read_scan(scan)
       IN  IF Len(lines) > k
           THEN /\ lines' = SubSeq(lines, k + 1, Len(lines))
                /\ IF r.exc # None
                   THEN /\ exc' = r.exc /\ pc' = "raised" /\ UNCHANGED scans
                   ELSE /\ scans' = Append(scans, r.value) /\ UNCHANGED <<exc, pc>>
           ELSE /\ pc' = "last"
                /\ UNCHANGED <<lines, scans, exc>>
    /\ UNCHANGED <<file_info, hdr_in, body_in, ret, scanVars, runVars, alsVars>>

\* the while test fails: no blank line is left
NoBlankLeft ==
    /\ pc = "scans"
    /\ ~HasBlank(lines)
    /\ pc' = "last"
    /\ UNCHANGED <<file_info, hdr_in, lines, body_in, scans, exc, ret, scanVars, runVars, alsVars>>

\* scans.append(read_scan(lines)) after the loop, and the return
LastScan ==
    /\ pc = "last"
    /\ LET r == read_scan(lines)
       IN  IF r.exc # None
           THEN /\ exc' = r.exc /\ pc' = "raised" /\ UNCHANGED <<scans, ret>>
           ELSE /\ scans' = Append(scans, r.value)
                /\ ret' = <<file_info, scans'>>
                /\ pc' = "returned"
                /\ UNCHANGED exc
    /\ UNCHANGED <<file_info, hdr_in, lines, body_in, scanVars, runVars, alsVars>>

NextFile ==
    \/ ReadHeaderBlank
    \/ ReadHeaderLine
    \/ ReadLines
    \/ SplitScan
    \/ NoBlankLeft
    \/ LastScan

SpecFile == InitFile /\ [][NextFile]_vars
(***************************************************************************)
(* Claims about read_spec                                                  *)
(***************************************************************************)
IsFileLine(line) == line # BlankLine /\ line # EndOfFile

\* the lines read before the first blank line
HeaderRead == SelectSeq(hdr_in, IsFileLine)

BadHeaderLine == \E i \in 1..Len(HeaderRead) : ~KnownPrefix(HeaderRead[i])

\* the file ended before any blank line was read
HeaderHitEnd == hdr_in # <<>> /\ hdr_in[Len(hdr_in)] = EndOfFile

FormatErrorNothingReturned ==
    pc = "raised" /\ exc = NotValid /\ ret = NoValue /\ scans = <<>>

\* C1 as stated: a header line without a known prefix ends read_spec in the
\* format error with nothing returned; if every header line read has a known
\* prefix, the header phase raises no format error.
C1_AsStated ==
    /\ BadHeaderLine => FormatErrorNothingReturned
    /\ ~BadHeaderLine => exc # NotValid

\* C1 amended: a header line without a known prefix ends read_spec in the
\* format error with nothing returned; if every header line read has a known
\* prefix and the blank line is reached, no format error is raised; a file
\* that ends before any blank line ends in the format error too.
C1_HeaderPhase ==
    /\ BadHeaderLine => FormatErrorNothingReturned
    /\ (~BadHeaderLine /\ ~HeaderHitEnd) => exc # NotValid
    /\ HeaderHitEnd => FormatErrorNothingReturned

\* a well-formed header line followed by a line without a known prefix
C1_Witness ==
    /\ Len(HeaderRead) = 2
    /\ KnownPrefix(HeaderRead[1])
    /\ ~KnownPrefix(HeaderRead[2])
    /\ pc = "raised"

\* the remaining text is scan blocks separated by single blank lines, with or
\* without a blank line after the last block
Canonical(b) ==
    /\ b # <<>> => b[1] # BlankLine
    /\ \A i \in 1..(Len(b) - 1) : ~(b[i] = BlankLine /\ b[i + 1] = BlankLine)

BlockStarts(b) ==
    {i \in 1..Len(b) : b[i] # BlankLine /\ (i = 1 \/ b[i - 1] = BlankLine)}

NumBlocks(b) == Cardinality(BlockStarts(b))

\* first line of the n-th block
BlockStart(b, n) ==
    CHOOSE i \in BlockStarts(b) : Cardinality({j \in BlockStarts(b) : j <= i}) = n

\* last line of the block that starts at i
BlockEnd(b, i) ==
    CHOOSE k \in i..Len(b) :
        /\ \A j \in i..k : b[j] # BlankLine
        /\ (k = Len(b) \/ b[k + 1] = BlankLine)

Block(b, n) == SubSeq(b, BlockStart(b, n), BlockEnd(b, BlockStart(b, n)))

\* C2: scan phase. For every N >= 0, a file with a valid header whose
\* remaining text is N scan blocks separated by blank lines returns exactly N
\* scan records, the n-th being the record of the n-th block, with or without
\* a blank line after the last block.
C2_OneRecordPerBlock ==
    (pc = "returned" /\ Canonical(body_in)) =>
        /\ Len(scans) = NumBlocks(body_in)
        /\ \A n \in 1..Min(Len(scans), NumBlocks(body_in)) :
              LET r == read_scan(Block(body_in, n)).value
              IN  /\ scans[n][1] = r[1]
                  /\ scans[n][2].columns = r[2].columns
(***************************************************************************)
(* IntegrateData.py: progress, extend_mesh, integrate_run and __main__     *)
(***************************************************************************)
\* progress(count, total) divides by float(total)
ProgressRaises(count, total) == total = 0

\* extend_mesh(x) on integer centres, every edge doubled to stay in the
\* integers: the midpoints of neighbours and the two extrapolated outer edges
extend_mesh(x) ==
    LET n == Len(x)
        x_delta == [i \in 1..(n - 1) |-> x[i + 1] - x[i]]
    IN  <<2 * x[1] - x_delta[1]>>
        \o [i \in 1..(n - 1) |-> 2 * x[i] + x_delta[i]]
        \o <<2 * x[n] + x_delta[n - 1]>>

EigerColumn == <<"e", "i", "g", "e", "r", "_", "d", "a", "t", "a", "_", "f", "i", "l", "e", "n", "a", "m", "e">>
FirstImageColumn == <<"f", "i", "r", "s", "t", "_", "i", "m", "a", "g", "e", "_", "N", "r">>

\* 'name' in run.columns
HasColumn(run, name) == \E c \in 1..Len(run.columns) : run.columns[c] = name

\* the run qualifies for image processing
Qualifies(run) == HasColumn(run, EigerColumn)

\* run[name][row], row counted from 0
Cell(run, name, row) ==
    run.rows[row + 1][CHOOSE c \in 1..Len(run.columns) : run.columns[c] = name]

DigitChar(d) == <<"0", "1", "2", "3", "4", "5", "6", "7", "8", "9">>[d + 1]

\* '%06d' % n for n >= 0
Pad6(n) ==
    IF n >= 1000000 THEN <<"*">>
    ELSE [i \in 1..6 |->
            DigitChar((n \div (CASE i = 1 -> 100000 [] i = 2 -> 10000 [] i = 3 -> 1000
                                 [] i = 4 -> 100 [] i = 5 -> 10 [] i = 6 -> 1)) % 10)]

\* the frame path of a row, below <root>/<measurement>/eiger/, with its extension
FramePath(run, row) ==
    Cell(run, EigerColumn, row) \o <<"_", "d", "a", "t", "a", "_">>
        \o Pad6(IntOf(Cell(run, FirstImageColumn, row))) \o <<".", "h", "5">>

\* the exception the path expression of a row raises, None when it has a value
FramePathRaises(run, row) ==
    IF ~HasColumn(run, FirstImageColumn) THEN "KeyError"
    ELSE IF ~IsInt(Cell(run, FirstImageColumn, row)) THEN "ValueError"
    ELSE None

\* variant of BaselineWanted: the baseline is subtracted whether or not a
\* flatfield is loaded
BaselineAlways(ff) == TRUE

\* whether baseline_als is run on a decoded frame
BaselineWanted(ff) == ff = None

\* the row recorded for a decoded frame: result[1] - bgr on the axis result[0]
Corrected(path, axis, ff) ==
    [frame |-> path, axis |-> axis,
     minus |-> IF BaselineWanted(ff) THEN "baseline_als" ELSE "0"]

\* the axis the matrix of a finished run gets: the q variable as it stands
ColumnAxis(qv, pats) == qv

\* variant of RunMatrix: the matrix is built without looking at the q variable
RunMatrixAlways(qv, pats) == DataFrame(pats, ColumnAxis(qv, pats))

\* the matrix of a finished run
RunMatrix(qv, pats) ==
    IF qv = None THEN NoneRecord ELSE DataFrame(pats, ColumnAxis(qv, pats))

(***************************************************************************)
(* Specification Spec: the program started with at most MaxArgs arguments  *)
(* on a measurement of at most MaxRuns run tables holding at most          *)
(* MaxImages rows between them.  The text scan that builds the tables (the *)
(* loop over the .spec file) is represented by its result, chosen among    *)
(* SpecDataSets.                                                           *)
(***************************************************************************)
MaxArgs == 3
MaxRuns == 2
MaxImages == 3

\* the axes the integrator may return for a frame
Axes == {"q1", "q2"}

ColumnSets ==
    { <<EigerColumn, FirstImageColumn>>, <<EigerColumn>>, <<<<"a">>, <<"b">>>> }

\* the k-th row of a table: its tokens, the image number being k
RowTokens(columns, k) ==
    [c \in 1..Len(columns) |->
        IF columns[c] = EigerColumn THEN <<"f">> ELSE <<DigitChar(k)>>]

RunTables ==
    { DataFrame([k \in 1..n |-> RowTokens(cs, k)], cs) : cs \in ColumnSets, n \in 0..MaxImages }

RECURSIVE TotalRows(_)
TotalRows(sd) == IF sd = <<>> THEN 0 ELSE Len(Head(sd).rows) + TotalRows(Tail(sd))

SpecDataSets == {sd \in SeqsUpTo(RunTables, MaxRuns) : TotalRows(sd) <= MaxImages}

\* the locals of the loop over the lines of the .spec file, before the loop;
\* names starts as None, which the loop only tests for truth, as it does []
SpecLoopStart == [spec_data |-> <<>>, run |-> <<>>, names |-> NoValue, more_data |-> FALSE]

\* one pass of the body of the loop over the lines of the .spec file
SpecLoopLine(st, ln) ==
    IF StartsWith(ln, <<"#", "L">>)
    THEN [st EXCEPT !.names = PyFrom(Split(ln), 1), !.run = <<>>, !.more_data = TRUE]
    ELSE IF StartsWith(ln, <<"#", "S">>)
    THEN IF st.run # <<>> /\ st.names # <<>>
         THEN [st EXCEPT !.spec_data = Append(@, DataFrame(PySlice(st.run, 0, -1), st.names)),
                         !.more_data = FALSE]
         ELSE st
    ELSE IF StartsWith(ln, <<"#", "C">>)
    THEN IF st.run # <<>> /\ st.names # <<>>
         THEN [st EXCEPT !.spec_data = Append(@, DataFrame(st.run, st.names)),
                         !.more_data = FALSE,
                         !.run = <<>>]
         ELSE st
    ELSE IF st.more_data
    THEN [st EXCEPT !.run = Append(@, Split(ln))]
    ELSE st

RECURSIVE SpecLoop(_, _, _)
SpecLoop(st, ls, i) ==
    IF i > Len(ls) THEN st ELSE SpecLoop(SpecLoopLine(st, ls[i]), ls, i + 1)

\* _spec_data as integrate_run has it after the loop over the file ls and the
\* test of the run left over
SpecDataOf(ls) ==
    LET st == SpecLoop(SpecLoopStart, ls, 1)
    IN  IF st.run # <<>>
        THEN Append(st.spec_data, DataFrame(st.run, st.names))
        ELSE st.spec_data

\* the tables of the scan records read_spec has collected
ScanTables == [n \in 1..Len(scans) |-> scans[n][2]]

\* C9: for a file with a valid header, the run tables integrate_run builds
\* from the file are the scan tables read_spec returns for it: as many, in
\* file order, with the same column names and the same data rows.
C9_SameTables ==
    pc = "returned" => SpecDataOf(hdr_in \o body_in) = ScanTables

Init ==
    /\ mpc = "main"
    /\ argv_len \in 1..(MaxArgs + 1)
    /\ mask = None
    /\ flatfield = None
    /\ spec_data = <<>>
    /\ idx = 0
    /\ image = 0
    /\ patterns = <<>>
    /\ q = None
    /\ all_patterns = <<>>
    /\ calls = <<>>
    /\ built = <<>>
    /\ status = None
    /\ created = FALSE
    /\ main_idx = 0
    /\ saved = <<>>
    /\ scanIdle
    /\ fileIdle
    /\ alsIdle

integrateLocals == <<mask, flatfield, spec_data, idx, image, patterns, q, all_patterns,
                     calls, built>>

\* the argument test of __main__ and the evaluation of the call's arguments
MainArgs ==
    /\ mpc = "main"
    /\ IF argv_len < 2
       THEN /\ mpc' = "exit"
            /\ status' = "ERROR: Not enough input parameters."
       ELSE IF argv_len > 3
       THEN /\ mpc' = "exit"
            /\ status' = "ERROR: Too many input parameters."
       ELSE IF argv_len < 3
       THEN /\ mpc' = "crashed"
            /\ status' = "IndexError"
       ELSE /\ mpc' = "setup"
            /\ UNCHANGED status
    /\ UNCHANGED <<argv_len, integrateLocals, created, main_idx, saved, scanVars, fileVars, alsVars>>

\* integrate_run: the calibration is loaded, the mask and the flatfield are
\* loaded when their files exist
Setup ==
    /\ mpc = "setup"
    /\ mask' \in {None, "mask"}
    /\ flatfield' \in {None, "flatfield"}
    /\ mpc' = "readspec"
    /\ UNCHANGED <<argv_len, spec_data, idx, image, patterns, q, all_patterns, calls,
                   built, status, created, main_idx, saved, scanVars, fileVars, alsVars>>

\* the loop over the .spec file leaves its tables in _spec_data
ReadSpecData ==
    /\ mpc = "readspec"
    /\ spec_data' \in SpecDataSets
    /\ idx' = 0
    /\ q' = None
    /\ all_patterns' = <<>>
    /\ mpc' = "runs"
    /\ UNCHANGED <<argv_len, mask, flatfield, image, patterns, calls, built, status,
                   created, main_idx, saved, scanVars, fileVars, alsVars>>

\* the head of the loop over the runs: a run without the image-filename
\* column gets None, a run with it starts its image loop
RunStart ==
    /\ mpc = "runs"
    /\ idx < Len(spec_data)
    /\ IF Qualifies(spec_data[idx + 1])
       THEN /\ patterns' = <<>>
            /\ image' = 0
            /\ mpc' = "images"
            /\ UNCHANGED <<idx, all_patterns>>
       ELSE /\ all_patterns' = Append(all_patterns, NoneRecord)
            /\ idx' = idx + 1
            /\ UNCHANGED <<patterns, image, mpc>>
    /\ UNCHANGED <<argv_len, mask, flatfield, spec_data, q, calls, built, status,
                   created, main_idx, saved, scanVars, fileVars, alsVars>>

\* variant of ImageAbsent: FileNotFoundError is not caught
ImageAbsentAborts ==
    /\ mpc = "images"
    /\ image < Len(spec_data[idx + 1].rows)
    /\ FramePathRaises(spec_data[idx + 1], image) = None
    /\ status' = "FileNotFoundError"
    /\ mpc' = "crashed"
    /\ UNCHANGED <<argv_len, integrateLocals, created, main_idx, saved, scanVars, fileVars, alsVars>>

\* one pass of the image loop on a frame whose file is absent
ImageAbsent ==
    /\ mpc = "images"
    /\ image < Len(spec_data[idx + 1].rows)
    /\ FramePathRaises(spec_data[idx + 1], image) = None
    /\ calls' = Append(calls, [fn |-> "fabio.open", run |-> idx, image |-> image,
                               found |-> FALSE])
    /\ patterns' = Append(patterns, NoneRecord)
    /\ image' = image + 1
    /\ UNCHANGED <<mpc, argv_len, mask, flatfield, spec_data, idx, q, all_patterns, built,
                   status, created, main_idx, saved, scanVars, fileVars, alsVars>>

\* one pass of the image loop on a frame that is decoded: integration,
\* baseline policy, the q variable, the row
ImageDecoded ==
    /\ mpc = "images"
    /\ image < Len(spec_data[idx + 1].rows)
    /\ FramePathRaises(spec_data[idx + 1], image) = None
    /\ \E axis \in Axes :
         /\ calls' = calls
              \o <<[fn |-> "fabio.open", run |-> idx, image |-> image, found |-> TRUE],
                   [fn |-> "integrate1d", run |-> idx, image |-> image, found |-> TRUE]>>
              \o (IF BaselineWanted(flatfield)
                  THEN <<[fn |-> "baseline_als", run |-> idx, image |-> image,
                          found |-> TRUE]>>
                  ELSE <<>>)
         /\ q' = axis
         /\ patterns' = Append(patterns,
                               Corrected(FramePath(spec_data[idx + 1], image), axis, flatfield))
    /\ image' = image + 1
    /\ UNCHANGED <<mpc, argv_len, mask, flatfield, spec_data, idx, all_patterns, built,
                   status, created, main_idx, saved, scanVars, fileVars, alsVars>>

\* the path expression of the row raises: nothing catches it
ImagePathRaises ==
    /\ mpc = "images"
    /\ image < Len(spec_data[idx + 1].rows)
    /\ FramePathRaises(spec_data[idx + 1], image) # None
    /\ status' = FramePathRaises(spec_data[idx + 1], image)
    /\ mpc' = "crashed"
    /\ UNCHANGED <<argv_len, integrateLocals, created, main_idx, saved, scanVars, fileVars, alsVars>>

\* after the image loop: the matrix of the run, the closing progress call,
\* the append
RunEnd ==
    /\ mpc = "images"
    /\ image = Len(spec_data[idx + 1].rows)
    /\ built' = IF q = None THEN built ELSE Append(built, idx)
    /\ IF ProgressRaises(Len(spec_data[idx + 1].rows), Len(spec_data[idx + 1].rows))
       THEN /\ status' = "ZeroDivisionError"
            /\ mpc' = "crashed"
            /\ UNCHANGED <<all_patterns, idx>>
       ELSE /\ all_patterns' = Append(all_patterns, RunMatrix(q, patterns))
            /\ idx' = idx + 1
            /\ mpc' = "runs"
            /\ UNCHANGED status
    /\ UNCHANGED <<argv_len, mask, flatfield, spec_data, image, patterns, q, calls,
                   created, main_idx, saved, scanVars, fileVars, alsVars>>

\* integrate_run returns _spec_data and _all_patterns to __main__
Return ==
    /\ mpc = "runs"
    /\ idx = Len(spec_data)
    /\ mpc' = "mkdir"
    /\ UNCHANGED <<argv_len, integrateLocals, status, created, main_idx, saved,
                   scanVars, fileVars, alsVars>>

\* os.mkdir(save_path) when the directory does not exist
MkdirCreates ==
    /\ mpc = "mkdir"
    /\ created' = TRUE
    /\ main_idx' = 0
    /\ mpc' = "save"
    /\ UNCHANGED <<argv_len, integrateLocals, status, saved, scanVars, fileVars, alsVars>>

\* os.mkdir(save_path) when the directory exists
MkdirExists ==
    /\ mpc = "mkdir"
    /\ status' = "ERROR: Output folder already exists."
    /\ mpc' = "exit"
    /\ UNCHANGED <<argv_len, integrateLocals, created, main_idx, saved, scanVars, fileVars, alsVars>>

\* the image-number edges of the heatmap of a matrix, doubled
ImageEdges(df) ==
    IF Len(df.rows) = 1 THEN <<1, 3>>
    ELSE extend_mesh([i \in 1..Len(df.rows) |-> (i - 1) + 1])

\* one pass of the save loop: the two tables and the heatmap of a run that
\* has a matrix
SaveRun ==
    /\ mpc = "save"
    /\ main_idx < Len(spec_data)
    /\ saved' = IF all_patterns[main_idx + 1] # NoneRecord
                THEN Append(saved, [run |-> main_idx + 1,
                                    patterns |-> all_patterns[main_idx + 1],
                                    metadata |-> spec_data[main_idx + 1],
                                    img_number |-> ImageEdges(all_patterns[main_idx + 1])])
                ELSE saved
    /\ main_idx' = main_idx + 1
    /\ UNCHANGED <<mpc, argv_len, integrateLocals, status, created, scanVars, fileVars, alsVars>>

\* the save loop is over
Finish ==
    /\ mpc = "save"
    /\ main_idx = Len(spec_data)
    /\ mpc' = "done"
    /\ UNCHANGED <<argv_len, integrateLocals, status, created, main_idx, saved,
                   scanVars, fileVars, alsVars>>

Next ==
    \/ MainArgs
    \/ Setup
    \/ ReadSpecData
    \/ RunStart
    \/ ImageAbsent
    \/ ImageDecoded
    \/ ImagePathRaises
    \/ RunEnd
    \/ Return
    \/ MkdirCreates
    \/ MkdirExists
    \/ SaveRun
    \/ Finish

Spec == Init /\ [][Next]_vars
(***************************************************************************)
(* Claims about integrate_run and __main__                                 *)
(***************************************************************************)
CallsOf(fn, r, k) ==
    {c \in 1..Len(calls) : calls[c].fn = fn /\ calls[c].run = r /\ calls[c].image = k}

\* the frame of row k (from 0) of run r (from 0) was opened and found
Found(r, k) == \E c \in CallsOf("fabio.open", r, k) : calls[c].found

\* the frame of row k of run r was opened and its file was absent
Absent(r, k) == \E c \in CallsOf("fabio.open", r, k) : ~calls[c].found

\* a frame of a run up to run r (from 0) has been decoded and integrated
DecodedUpTo(r) ==
    \E c \in 1..Len(calls) : calls[c].fn = "integrate1d" /\ calls[c].run <= r

HasImageColumn(run) == \E c \in 1..Len(run.columns) : run.columns[c] = EigerColumn

\* entry k of a matrix is the missing marker for an absent frame and the
\* integrated row of its own frame for a frame that is present
RowsRecorded(r, run, m) ==
    /\ Len(m.rows) = Len(run.rows)
    /\ \A k \in 1..Len(run.rows) :
          /\ Cardinality(CallsOf("fabio.open", r, k - 1)) = 1
          /\ Absent(r, k - 1) => m.rows[k] = NoneRecord
          /\ Found(r, k - 1) =>
                /\ m.rows[k] # NoneRecord
                /\ m.rows[k].frame = FramePath(run, k - 1)
                /\ Cardinality(CallsOf("integrate1d", r, k - 1)) = 1

C5_BaselinePolicy ==
    /\ flatfield # None => \A c \in 1..Len(calls) : calls[c].fn # "baseline_als"
    /\ flatfield = None =>
          \A c \in 1..Len(calls) :
             LET n == Cardinality(CallsOf("baseline_als", calls[c].run, calls[c].image))
             IN  /\ (calls[c].fn = "fabio.open" /\ calls[c].found) => n = 1
                 /\ (calls[c].fn = "fabio.open" /\ ~calls[c].found) => n = 0
                 /\ calls[c].fn = "baseline_als" => Found(calls[c].run, calls[c].image)

\* a whole call without flatfield that met a decoded and an absent frame
C5_Witness ==
    /\ mpc = "mkdir"
    /\ flatfield = None
    /\ \E c \in 1..Len(calls) : calls[c].fn = "baseline_als"
    /\ \E c \in 1..Len(calls) : calls[c].fn = "fabio.open" /\ ~calls[c].found

\* C6: shared q-axis. The column axis of a run's matrix is the axis the
\* integrator returned for the first decoded frame of that same run, never
\* that of a later frame nor one obtained in another run.
C6_FirstFrameAxis ==
    \A i \in 1..Len(all_patterns) :
        all_patterns[i] # NoneRecord =>
            \E k \in 1..Len(all_patterns[i].rows) :
                /\ all_patterns[i].rows[k] # NoneRecord
                /\ \A j \in 1..(k - 1) : all_patterns[i].rows[j] = NoneRecord
                /\ all_patterns[i].columns = all_patterns[i].rows[k].axis

\* integrate_run has returned to __main__
Returned ==
    \/ mpc \in {"mkdir", "save", "done"}
    \/ mpc = "exit" /\ status = "ERROR: Output folder already exists."

TimesBuilt(r) == Cardinality({b \in 1..Len(built) : built[b] = r})

\* C7 as stated: one entry per scan record at the same index, None for every
\* run without the image-filename column, a matrix built exactly once for
\* every run with it.
C7_AsStated ==
    Returned =>
        /\ Len(all_patterns) = Len(spec_data)
        /\ \A i \in 1..Len(all_patterns) :
              IF HasImageColumn(spec_data[i])
              THEN all_patterns[i] # NoneRecord /\ TimesBuilt(i - 1) = 1
              ELSE all_patterns[i] = NoneRecord /\ TimesBuilt(i - 1) = 0

\* C7 amended: one entry per scan record at the same index; None for every
\* run without the image-filename column and for every run with it that ends
\* before any frame has been decoded in the call; a matrix built exactly once
\* for every other run.
C7_ResultShape ==
    Returned =>
        /\ Len(all_patterns) = Len(spec_data)
        /\ \A i \in 1..Len(all_patterns) :
              IF HasImageColumn(spec_data[i]) /\ DecodedUpTo(i - 1)
              THEN all_patterns[i] # NoneRecord /\ TimesBuilt(i - 1) = 1
              ELSE all_patterns[i] = NoneRecord /\ TimesBuilt(i - 1) = 0

\* a returned call with a run without the column, a run with the column and
\* a decoded frame
C7_Witness ==
    /\ Returned
    /\ Len(spec_data) = 2
    /\ ~HasImageColumn(spec_data[1])
    /\ HasImageColumn(spec_data[2])
    /\ all_patterns[1] = NoneRecord
    /\ all_patterns[2] # NoneRecord

\* integrate_run has been called
Started ==
    \/ mpc \in {"setup", "readspec", "runs", "images", "mkdir", "save", "done"}
    \/ mpc = "crashed" /\ status # "IndexError"
    \/ mpc = "exit" /\ status = "ERROR: Output folder already exists."

\* C8: integrate_run is started only with exactly two arguments; with any
\* other count the program exits with an error message, integrate_run is not
\* called and the output directory is not created.
C8_ArgumentCheck ==
    /\ Started => argv_len - 1 = 2
    /\ (argv_len - 1 # 2 /\ mpc # "main") =>
          /\ mpc = "exit"
          /\ status \in {"ERROR: Not enough input parameters.",
                         "ERROR: Too many input parameters."}
          /\ ~Started
          /\ ~created
(***************************************************************************)
(* IntegrateData.py: baseline_als                                          *)
(*                                                                         *)
(* The arithmetic is exact: p is a fraction, the weights are numerators    *)
(* over p.den, and the solution of the linear system is a vector of        *)
(* numerators over one denominator.                                        *)
(***************************************************************************)
RECURSIVE Sum(_, _)
\* f[1] + ... + f[n]
Sum(f, n) == IF n = 0 THEN 0 ELSE f[n] + Sum(f, n - 1)

\* sparse.diags([1, -2, 1], [0, -1, -2], shape=(L, L - 2)): the entry in row i
\* and column j, both from 1
D(i, j) ==
    CASE i = j -> 1
      [] i = j + 1 -> -2
      [] i = j + 2 -> 1
      [] OTHER -> 0

\* D.dot(D.transpose()): the entry in row i and column k of the L x L matrix
DDt(L, i, k) == Sum([j \in 1..(L - 2) |-> D(i, j) * D(k, j)], L - 2)

\* Z = W + lam * D.dot(D.transpose()) with W = spdiags(w, 0, L, L), every
\* entry multiplied by p.den
Z(w, lam, p) ==
    LET L == Len(w)
    IN  [i \in 1..L |-> [k \in 1..L |->
            (IF i = k THEN w[i] ELSE 0) + p.den * lam * DDt(L, i, k)]]

\* w * y, every entry multiplied by p.den
WeightedSamples(w, y) == [i \in 1..Len(y) |-> w[i] * y[i]]

\* the matrix M without its first row and its column c
Minor(M, c) ==
    [r \in 1..(Len(M) - 1) |-> [k \in 1..(Len(M) - 1) |->
        M[r + 1][IF k < c THEN k ELSE k + 1]]]

RECURSIVE Det(_)
\* the determinant, developed along the first row
Det(M) ==
    IF Len(M) = 1 THEN M[1][1]
    ELSE Sum([c \in 1..Len(M) |->
                (IF c % 2 = 1 THEN 1 ELSE -1) * M[1][c] * Det(Minor(M, c))], Len(M))

\* the matrix M with its column c replaced by b
WithColumn(M, c, b) ==
    [r \in 1..Len(M) |-> [k \in 1..Len(M) |-> IF k = c THEN b[r] ELSE M[r][k]]]

\* spsolve(A, b): the solution of A x = b by Cramer's rule, x[i] being
\* num[i] / den; for a singular A the solver fills x with NaN, which is den = 0
spsolve(A, b) ==
    LET d == Det(A)
    IN  IF d = 0
        THEN [num |-> [i \in 1..Len(b) |-> 0], den |-> 0]
        ELSE [num |-> [i \in 1..Len(b) |-> Det(WithColumn(A, i, b))], den |-> d]

\* y[i] > z[i]; False when z[i] is NaN
Above(y, z, i) ==
    \/ z.den > 0 /\ y[i] * z.den > z.num[i]
    \/ z.den < 0 /\ y[i] * z.den < z.num[i]

\* y[i] < z[i]; False when z[i] is NaN
Below(y, z, i) ==
    \/ z.den > 0 /\ y[i] * z.den < z.num[i]
    \/ z.den < 0 /\ y[i] * z.den > z.num[i]

\* w = p * (y > z) + (1 - p) * (y < z), as numerators over p.den
Reweighted(y, z, p) ==
    [i \in 1..Len(y) |->
        p.num * (IF Above(y, z, i) THEN 1 ELSE 0)
        + (p.den - p.num) * (IF Below(y, z, i) THEN 1 ELSE 0)]

\* np.ones(L), as numerators over p.den
Ones(L, p) == [i \in 1..L |-> p.den]

MaxLen == 3
MaxSample == 2
MaxIter == 2

\* the signals: at least three samples each
Signals == {s \in SeqsUpTo(0..MaxSample, MaxLen) : Len(s) >= 3}

Lams == {1, 2}

\* values of p in (0, 1)
PValues == {[num |-> 1, den |-> 4], [num |-> 1, den |-> 2], [num |-> 3, den |-> 4]}

InitBaseline ==
    /\ als_pc = "loop"
    /\ als_y \in Signals
    /\ als_lam \in Lams
    /\ als_p \in PValues
    /\ als_niter \in 0..MaxIter
    /\ als_i = 0
    /\ als_w = Ones(Len(als_y), als_p)
    /\ als_z = NoSolution
    /\ scanIdle
    /\ fileIdle
    /\ runIdle

\* one round of the for loop: the solve and the update of the weights
BaselineRound ==
    /\ als_pc = "loop"
    /\ als_i < als_niter
    /\ als_z' = spsolve(Z(als_w, als_lam, als_p), WeightedSamples(als_w, als_y))
    /\ als_w' = Reweighted(als_y, als_z', als_p)
    /\ als_i' = als_i + 1
    /\ UNCHANGED <<als_pc, als_y, als_lam, als_p, als_niter, scanVars, fileVars, runVars>>

\* range(niter) is exhausted: return z, which is unbound when niter is 0
BaselineReturn ==
    /\ als_pc = "loop"
    /\ als_i = als_niter
    /\ als_pc' = IF als_niter = 0 THEN "raised" ELSE "returned"
    /\ UNCHANGED <<als_y, als_lam, als_p, als_niter, als_i, als_w, als_z,
                   scanVars, fileVars, runVars>>

NextBaseline == BaselineRound \/ BaselineReturn

SpecBaseline == InitBaseline /\ [][NextBaseline]_vars

\* C10: the weights start at 1; exactly niter rounds are executed; after each
\* round the weight of a sample is p where y exceeds z and 1 - p for every
\* other sample, so that no weight is ever 0.
C10_WeightUpdate ==
    /\ (als_pc # "idle" /\ als_i = 0) =>
          \A k \in 1..Len(als_y) : als_w[k] = als_p.den
    /\ als_pc \in {"returned", "raised"} => als_i = als_niter
    /\ (als_pc # "idle" /\ als_i >= 1) =>
          \A k \in 1..Len(als_y) :
              /\ als_w[k] = IF Above(als_y, als_z, k)
                            THEN als_p.num
                            ELSE als_p.den - als_p.num
              /\ als_w[k] # 0
====
